---- MODULE Spec2Model ----
(***************************************************************************)
(* Model of main.py: the documentation generator that walks a directory    *)
(* tree, parses every Python file, collects one record per function and    *)
(* renders the aggregated records as a text or Word report.                *)
(***************************************************************************)
EXTENDS Integers, Sequences, FiniteSets, TLC

VARIABLES
    fs,             \* the directory tree: path -> what the file is
    Document,       \* whether python-docx was importable (lines 9-12)
    pc,             \* where the program is
    dirIdx,         \* the directory os.walk is at
    filenames,      \* the file names of that directory still to visit
    file_path,      \* the argument of the running process_file
    handles,        \* the paths with an open file handle
    result,         \* result['modules'] of the running process_file
    project_data,   \* the insertion-ordered mapping scan_project builds
    processed,      \* the paths process_file was called with, in order
    stdout,         \* the printed lines
    written,        \* the output files written, in order
    requested,     \* the mode generate_report was invoked with
    exception,      \* the exception that ended the run, if any
    name_in, name_out,   \* a base name and the module name derived from it
    tree_in, walk_out    \* a syntax tree and the records extracted from it

vars == <<fs, Document, pc, dirIdx, filenames, file_path, handles, result,
          project_data, processed, stdout, written, requested, exception,
          name_in, name_out, tree_in, walk_out>>

(* ---------------------------- bounds ----------------------------------- *)
\* number of files in the tree besides the running script
MaxFiles == 3
\* depth of the directory chain below the root
MaxDepth == 1
\* longest base name given to the module-name derivation
MaxNameLen == 5
\* largest syntax tree (nodes, the Module root included) given to the walk
MaxNodes == 4

(* ---------------------------- strings ---------------------------------- *)
\* a str is a sequence of one-character strings
Chars == {"m", "u", ".", "p", "y"}

PySuffix == <<".", "p", "y">>

\* str.endswith
EndsWith(s, suf) ==
    /\ Len(s) >= Len(suf)
    /\ SubSeq(s, Len(s) - Len(suf) + 1, Len(s)) = suf

\* does old occur in s at position i
OccursAt(s, old, i) ==
    /\ i + Len(old) - 1 <= Len(s)
    /\ SubSeq(s, i, i + Len(old) - 1) = old

RECURSIVE ReplaceFrom(_, _, _, _)
ReplaceFrom(s, old, new, i) ==
    IF i > Len(s) THEN <<>>
    ELSE IF OccursAt(s, old, i)
         THEN new \o ReplaceFrom(s, old, new, i + Len(old))
         ELSE <<s[i]>> \o ReplaceFrom(s, old, new, i + 1)

\* str.replace(old, new): every non-overlapping occurrence, left to right
Replace(s, old, new) == ReplaceFrom(s, old, new, 1)

\* os.path.join(dirpath, filename); a path is the sequence of its components
Join(dirpath, filename) == Append(dirpath, filename)

\* os.path.basename
Basename(path) == path[Len(path)]

\* module_name = os.path.basename(file_path).replace('.py', '')
ModuleName(path) == Replace(Basename(path), PySuffix, <<>>)

(* ---------------------------- syntax trees ----------------------------- *)
\* A tree is a sequence of nodes; node 1 is the Module root (parent 0) and a
\* node's children are the later nodes naming it as parent, in source order.
NoExpr == [kind |-> "None", id |-> ""]
IntName == [kind |-> "Name", id |-> "int"]
StrName == [kind |-> "Name", id |-> "str"]

Node(kind, parent, name, args, returns, doc) ==
    [kind |-> kind, parent |-> parent, name |-> name, args |-> args,
     returns |-> returns, doc |-> doc]

Plain(kind, parent) == Node(kind, parent, "f", <<>>, NoExpr, "")

\* ast.iter_child_nodes
Children(tree, i) ==
    LET idx == {j \in 1..Len(tree) : tree[j].parent = i}
        F[k \in 0..Len(tree)] ==
            IF k = 0 THEN <<>>
            ELSE IF k \in idx THEN Append(F[k - 1], k) ELSE F[k - 1]
    IN F[Len(tree)]

RECURSIVE WalkTodo(_, _)
WalkTodo(tree, todo) ==
    IF todo = <<>> THEN <<>>
    ELSE <<Head(todo)>> \o WalkTodo(tree, Tail(todo) \o Children(tree, Head(todo)))

\* a walk that stops at the top-level statements
Walk_TopLevelOnly(tree) == <<1>> \o Children(tree, 1)

\* ast.walk: breadth-first over the whole tree, starting at the root
Walk(tree) == WalkTodo(tree, <<1>>)

\* ast.unparse of an annotation expression
Unparse(e) == e.id

\* ast.get_docstring(node) or ''
GetDocstring(node) == node.doc

analyze_function(node) ==
    [name |-> node.name,
     args |-> [k \in 1..Len(node.args) |->
                 IF node.args[k].annotation.kind # "None"
                 THEN [name |-> node.args[k].arg, has_type |-> TRUE,
                       type |-> Unparse(node.args[k].annotation)]
                 ELSE [name |-> node.args[k].arg, has_type |-> FALSE,
                       type |-> ""]],
     returns |-> IF node.returns.kind # "None"
                 THEN [some |-> TRUE, val |-> Unparse(node.returns)]
                 ELSE [some |-> FALSE, val |-> ""],
     docstring |-> GetDocstring(node)]

\* isinstance(node, ast.FunctionDef)
IsFunctionDef(node) == node.kind = "FunctionDef"

\* every tree of at most MaxNodes nodes; a node is named after its position
NodeKinds == {"FunctionDef", "AsyncFunctionDef", "ClassDef", "Expr"}

TreesOfSize(n) ==
    {t \in [1..n -> [kind : NodeKinds \cup {"Module"}, parent : 0..(n - 1)]] :
        /\ t[1].kind = "Module" /\ t[1].parent = 0
        /\ \A i \in 2..n : t[i].kind # "Module" /\ t[i].parent \in 1..(i - 1)}

Trees ==
    UNION { { [i \in 1..n |-> Node(t[i].kind, t[i].parent, ToString(i), <<>>, NoExpr, "")]
              : t \in TreesOfSize(n) } : n \in 1..MaxNodes }

\* the nodes process_file records, in the order the walk meets them
FunctionNodes(tree) == SelectSeq(Walk(tree), LAMBDA i : IsFunctionDef(tree[i]))

\* result['modules'] after the loop of process_file: an insertion-ordered
\* mapping, here a sequence of (module, functions) entries
ExtractModules(path, tree) ==
    LET fn == FunctionNodes(tree)
    IN IF fn = <<>> THEN <<>>
       ELSE << [module |-> ModuleName(path),
                functions |-> [k \in 1..Len(fn) |-> analyze_function(tree[fn[k]])]] >>

(* ---------------------------- file system ------------------------------ *)
\* os.path.basename(__file__)
SelfName == <<"m", ".", "p", "y">>

FileNames == {SelfName, <<"u", ".", "p", "y">>, <<"p", ".", "p", "y">>, <<"u", ".", "p">>}

\* the directories: root, root/sub, root/sub/sub, ...
DirAt(k) == [i \in 1..(k + 1) |-> IF i = 1 THEN "root" ELSE "sub"]

\* os.path.abspath(__file__)
SelfPath == Join(DirAt(0), SelfName)

Paths == {Join(DirAt(k), n) : k \in 0..MaxDepth, n \in FileNames}

EmptyTree == << Plain("Module", 0) >>

NoFuncTree == << Plain("Module", 0), Plain("Expr", 1), Plain("ClassDef", 1) >>

FuncTree ==
    << Plain("Module", 0),
       Plain("ClassDef", 1),
       Node("FunctionDef", 1, "foo",
            << [arg |-> "a", annotation |-> IntName],
               [arg |-> "b", annotation |-> NoExpr] >>, StrName, "desc"),
       Node("FunctionDef", 2, "method",
            << [arg |-> "self", annotation |-> NoExpr] >>, NoExpr, ""),
       Node("FunctionDef", 3, "inner", <<>>, NoExpr, "") >>

\* what a file is: whether open() succeeds, whether its text parses, its tree
Contents ==
    { [openable |-> FALSE, valid |-> TRUE,  tree |-> FuncTree],
      [openable |-> TRUE,  valid |-> FALSE, tree |-> EmptyTree],
      [openable |-> TRUE,  valid |-> TRUE,  tree |-> NoFuncTree],
      [openable |-> TRUE,  valid |-> TRUE,  tree |-> FuncTree] }

SelfContent == [openable |-> TRUE, valid |-> TRUE, tree |-> FuncTree]

\* the file names of one directory, as os.walk lists them (any order)
NamesIn(k) == {n \in FileNames : Join(DirAt(k), n) \in DOMAIN fs}

Listings(k) ==
    LET S == NamesIn(k)
    IN {s \in [1..Cardinality(S) -> S] : \A i, j \in 1..Cardinality(S) : s[i] = s[j] => i = j}

\* filename.endswith('.py') and filename != os.path.basename(__file__)
Eligible(filename) == EndsWith(filename, PySuffix) /\ filename # SelfName

(* ---------------------------- report ----------------------------------- *)
TxtFile == "project_documentation.txt"
DocxFile == "project_documentation.docx"

Line(tag, val) == [tag |-> tag, val |-> val]

RECURSIVE Concat(_)
Concat(seqs) == IF seqs = <<>> THEN <<>> ELSE Head(seqs) \o Concat(Tail(seqs))

\* [arg['name'] for arg in func['args']]
ArgNames(func) == [k \in 1..Len(func.args) |-> func.args[k].name]

\* func['returns'] or 'None'
ReturnsText(func) ==
    IF func.returns.some /\ func.returns.val # "" THEN func.returns.val ELSE "None"

FuncLines(func) ==
    << Line("Function", func.name), Line("Inputs", ArgNames(func)),
       Line("Returns", ReturnsText(func)), Line("Description", func.docstring),
       Line("Rule", "-") >>

ModuleLines(m) ==
    << Line("Module", m.module) >>
    \o Concat([k \in 1..Len(m.functions) |-> FuncLines(m.functions[k])])

FileLines(e) ==
    << Line("File", e.path) >>
    \o Concat([k \in 1..Len(e.modules) |-> ModuleLines(e.modules[k])])

\* the files rendered last to first
TextLines_Reordered(data) ==
    Concat([k \in 1..Len(data) |-> FileLines(data[Len(data) + 1 - k])])

\* the lines list of generate_report after its loops
TextLines(data) == Concat([k \in 1..Len(data) |-> FileLines(data[k])])

Heading(level, val) == [tag |-> "Heading", level |-> level, val |-> val]
Paragraph(tag, val) == [tag |-> tag, level |-> 4, val |-> val]

FuncElems(func) ==
    << Heading(3, func.name), Paragraph("Arguments", ArgNames(func)),
       Paragraph("Returns", ReturnsText(func)),
       Paragraph("Description", func.docstring) >>

ModuleElems(m) ==
    << Heading(2, m.module) >>
    \o Concat([k \in 1..Len(m.functions) |-> FuncElems(m.functions[k])])

FileElems(e) ==
    << Heading(1, e.path) >>
    \o Concat([k \in 1..Len(e.modules) |-> ModuleElems(e.modules[k])])

\* the doc object of generate_report after its loops
DocElems(data) ==
    << Heading(0, "Project Documentation") >>
    \o Concat([k \in 1..Len(data) |-> FileElems(data[k])])

Printed(tag, file, path) == [tag |-> tag, file |-> file, path |-> path]

\* a renderer whose confirmation follows the requested mode, not the file
GenerateReport_ConfirmsRequested(data, output_format) ==
    LET use_doc == output_format = "docx" /\ Document
        unbound == output_format = "docx" /\ ~Document /\ data # <<>>
        said == IF output_format = "docx"
                THEN Printed("Word document generated", DocxFile, <<>>)
                ELSE Printed("Text document generated", TxtFile, <<>>)
    IN IF unbound
       THEN [raised |-> TRUE, written |-> <<>>, printed |-> <<>>]
       ELSE IF use_doc
       THEN [raised |-> FALSE,
             written |-> << [name |-> DocxFile, content |-> DocElems(data)] >>,
             printed |-> << said >>]
       ELSE [raised |-> FALSE,
             written |-> << [name |-> TxtFile, content |-> TextLines(data)] >>,
             printed |-> << said >>]

\* generate_report(data, output_format): whether it raises, the files it
\* writes and the lines it prints
GenerateReport(data, output_format) ==
    LET use_doc == output_format = "docx" /\ Document
        \* line 74 reads doc, which line 67 bound only when Document is set
        unbound == output_format = "docx" /\ ~Document /\ data # <<>>
    IN IF unbound
       THEN [raised |-> TRUE, written |-> <<>>, printed |-> <<>>]
       ELSE IF use_doc
       THEN [raised |-> FALSE,
             written |-> << [name |-> DocxFile, content |-> DocElems(data)] >>,
             printed |-> << Printed("Word document generated", DocxFile, <<>>) >>]
       ELSE [raised |-> FALSE,
             written |-> << [name |-> TxtFile, content |-> TextLines(data)] >>,
             printed |-> << Printed("Text document generated", TxtFile, <<>>) >>]

(* ---------------------------- scan ------------------------------------- *)
\* project_data[full_path] = data on an insertion-ordered mapping
Put(d, path, data) ==
    IF \E k \in 1..Len(d) : d[k].path = path
    THEN [k \in 1..Len(d) |-> IF d[k].path = path
                               THEN [path |-> path, modules |-> data] ELSE d[k]]
    ELSE Append(d, [path |-> path, modules |-> data])

FileSystems ==
    UNION { [P \cup {SelfPath} -> Contents] :
            P \in {Q \in SUBSET (Paths \ {SelfPath}) : Cardinality(Q) <= MaxFiles} }

Idle ==
    /\ name_in = <<>> /\ name_out = <<>> /\ tree_in = <<>> /\ walk_out = <<>>

Init ==
    /\ fs \in {f \in FileSystems : f[SelfPath] = SelfContent}
    /\ Document \in BOOLEAN
    /\ pc = "walk"
    /\ dirIdx = -1
    /\ filenames = <<>>
    /\ file_path = <<>>
    /\ handles = {}
    /\ result = <<>>
    /\ project_data = <<>>
    /\ processed = <<>>
    /\ stdout = <<>>
    /\ written = <<>>
    /\ requested = ""
    /\ exception = ""
    /\ Idle

\* for dirpath, _, filenames in os.walk(root_dir): the next directory
NextDir ==
    /\ pc = "walk" /\ filenames = <<>> /\ dirIdx < MaxDepth
    /\ dirIdx' = dirIdx + 1
    /\ filenames' \in Listings(dirIdx + 1)
    /\ UNCHANGED <<fs, Document, pc, file_path, handles, result,
                   project_data, processed, stdout, written, requested,
                   exception, name_in, name_out, tree_in, walk_out>>

\* the condition of line 57 is false: the file is passed over
SkipFile ==
    /\ pc = "walk" /\ filenames # <<>> /\ ~Eligible(Head(filenames))
    /\ filenames' = Tail(filenames)
    /\ UNCHANGED <<fs, Document, pc, dirIdx, file_path, handles, result,
                   project_data, processed, stdout, written, requested,
                   exception, name_in, name_out, tree_in, walk_out>>

\* process_file is called and opens the file; a failing open() raises out of
\* process_file, scan_project and the script
OpenFile ==
    /\ pc = "walk" /\ filenames # <<>> /\ Eligible(Head(filenames))
    /\ LET full_path == Join(DirAt(dirIdx), Head(filenames))
       IN /\ file_path' = full_path
          /\ processed' = Append(processed, full_path)
          /\ IF fs[full_path].openable
             THEN handles' = handles \cup {full_path} /\ pc' = "opened"
                  /\ exception' = exception
             ELSE handles' = handles /\ pc' = "raised" /\ exception' = "OSError"
    /\ filenames' = Tail(filenames)
    /\ result' = <<>>
    /\ UNCHANGED <<fs, Document, dirIdx, project_data, stdout, written,
                   requested, name_in, name_out, tree_in, walk_out>>

\* the try block when ast.parse succeeds
ParseOk ==
    /\ pc = "opened" /\ fs[file_path].valid
    /\ result' = ExtractModules(file_path, fs[file_path].tree)
    /\ pc' = "parsed"
    /\ UNCHANGED <<fs, Document, dirIdx, filenames, file_path, handles,
                   project_data, processed, stdout, written, requested,
                   exception, name_in, name_out, tree_in, walk_out>>

\* a parse failure that is not caught: it ends the run
ParseError_Uncaught ==
    /\ pc = "opened" /\ ~fs[file_path].valid
    /\ pc' = "raised"
    /\ exception' = "SyntaxError"
    /\ UNCHANGED <<fs, Document, dirIdx, filenames, file_path, handles,
                   result, project_data, processed, stdout, written,
                   requested, name_in, name_out, tree_in, walk_out>>

\* the except block: ast.parse raised, the diagnostic is printed
ParseError ==
    /\ pc = "opened" /\ ~fs[file_path].valid
    /\ stdout' = Append(stdout, Printed("Error parsing", "", file_path))
    /\ pc' = "parsed"
    /\ UNCHANGED <<fs, Document, dirIdx, filenames, file_path, handles,
                   result, project_data, processed, written, requested,
                   exception, name_in, name_out, tree_in, walk_out>>

\* a close that is skipped when the parse failed
CloseFile_LeakOnError ==
    /\ pc = "parsed"
    /\ handles' = IF fs[file_path].valid THEN handles \ {file_path} ELSE handles
    /\ pc' = "closed"
    /\ UNCHANGED <<fs, Document, dirIdx, filenames, file_path, result,
                   project_data, processed, stdout, written, requested,
                   exception, name_in, name_out, tree_in, walk_out>>

\* the with statement exits and closes the file
CloseFile ==
    /\ pc = "parsed"
    /\ handles' = handles \ {file_path}
    /\ pc' = "closed"
    /\ UNCHANGED <<fs, Document, dirIdx, filenames, file_path, result,
                   project_data, processed, stdout, written, requested,
                   exception, name_in, name_out, tree_in, walk_out>>

\* a scan that keeps every result, empty or not
ReturnFile_KeepsEmpty ==
    /\ pc = "closed"
    /\ project_data' = Put(project_data, file_path, result)
    /\ pc' = "walk"
    /\ UNCHANGED <<fs, Document, dirIdx, filenames, file_path, handles,
                   result, processed, stdout, written, requested,
                   exception, name_in, name_out, tree_in, walk_out>>

\* process_file returns; scan_project keeps a non-empty result
ReturnFile ==
    /\ pc = "closed"
    /\ project_data' = IF result # <<>> THEN Put(project_data, file_path, result)
                       ELSE project_data
    /\ pc' = "walk"
    /\ UNCHANGED <<fs, Document, dirIdx, filenames, file_path, handles,
                   result, processed, stdout, written, requested,
                   exception, name_in, name_out, tree_in, walk_out>>

\* os.walk is exhausted: scan_project returns project_data
ScanDone ==
    /\ pc = "walk" /\ filenames = <<>> /\ dirIdx = MaxDepth
    /\ pc' = "scanned"
    /\ UNCHANGED <<fs, Document, dirIdx, filenames, file_path, handles,
                   result, project_data, processed, stdout, written,
                   requested, exception, name_in, name_out, tree_in,
                   walk_out>>

\* a caller invokes generate_report(project_data, output_format)
CallGenerateReport ==
    /\ pc = "scanned"
    /\ \E output_format \in {"txt", "docx"} :
         LET r == GenerateReport(project_data, output_format)
         IN /\ requested' = output_format
            /\ written' = written \o r.written
            /\ stdout' = stdout \o r.printed
            /\ pc' = IF r.raised THEN "raised" ELSE "reported"
            /\ exception' = IF r.raised THEN "UnboundLocalError" ELSE exception
    /\ UNCHANGED <<fs, Document, dirIdx, filenames, file_path, handles,
                   result, project_data, processed, name_in, name_out,
                   tree_in, walk_out>>

\* the script's own tail: docx when Document is set, else text and the advice
Main ==
    /\ pc = "scanned"
    /\ LET arg == IF Document THEN "docx" ELSE "txt"
           r == GenerateReport(project_data, arg)
       IN /\ requested' = arg
          /\ exception' = IF r.raised THEN "UnboundLocalError" ELSE exception
          /\ written' = written \o r.written
          /\ stdout' = stdout \o r.printed \o
                 (IF Document THEN <<>>
                  ELSE << Printed("Install python-docx for Word document support", "", <<>>) >>)
          /\ pc' = IF r.raised THEN "raised" ELSE "exited"
    /\ UNCHANGED <<fs, Document, dirIdx, filenames, file_path, handles,
                   result, project_data, processed, name_in, name_out,
                   tree_in, walk_out>>

Next ==
    \/ NextDir \/ SkipFile \/ OpenFile \/ ParseOk \/ ParseError
    \/ CloseFile \/ ReturnFile \/ ScanDone \/ CallGenerateReport \/ Main

Spec == Init /\ [][Next]_vars

TypeOK ==
    /\ pc \in {"walk", "opened", "parsed", "closed", "scanned", "reported",
                "exited", "raised"}
    /\ dirIdx \in -1..MaxDepth
    /\ Cardinality(handles) <= 1

(* ------------------- module-name derivation alone ---------------------- *)
\* the str values of length n
RECURSIVE StrsOfLen(_)
StrsOfLen(n) ==
    IF n = 0 THEN {<<>>}
    ELSE {Append(s, c) : s \in StrsOfLen(n - 1), c \in Chars}

\* the base names scan_project hands to process_file: they end with '.py'
BaseNames == UNION { {s \o PySuffix : s \in StrsOfLen(n)} : n \in 0..MaxNameLen }

ScanIdle ==
    /\ fs = [p \in {SelfPath} |-> SelfContent]
    /\ Document = FALSE /\ dirIdx = -1 /\ filenames = <<>> /\ file_path = <<>>
    /\ handles = {} /\ result = <<>> /\ project_data = <<>> /\ processed = <<>>
    /\ stdout = <<>> /\ written = <<>> /\ requested = "" /\ exception = ""

InitName ==
    /\ ScanIdle
    /\ pc = "name"
    /\ name_in \in BaseNames
    /\ name_out = <<>> /\ tree_in = <<>> /\ walk_out = <<>>

\* line 44 of process_file on the file root/<name_in>
DeriveName ==
    /\ pc = "name"
    /\ name_out' = ModuleName(Join(DirAt(0), name_in))
    /\ pc' = "named"
    /\ UNCHANGED <<fs, Document, dirIdx, filenames, file_path, handles,
                   result, project_data, processed, stdout, written,
                   requested, exception, name_in, tree_in, walk_out>>

NextName == DeriveName

SpecName == InitName /\ [][NextName]_vars

(* ------------------- function extraction alone ------------------------- *)
InitWalk ==
    /\ ScanIdle
    /\ pc = "tree"
    /\ tree_in \in Trees
    /\ walk_out = <<>> /\ name_in = <<>> /\ name_out = <<>>

\* the try block of process_file on a file that parses to tree_in
WalkTree ==
    /\ pc = "tree"
    /\ walk_out' = ExtractModules(Join(DirAt(0), <<"u", ".", "p", "y">>), tree_in)
    /\ pc' = "walked"
    /\ UNCHANGED <<fs, Document, dirIdx, filenames, file_path, handles,
                   result, project_data, processed, stdout, written,
                   requested, exception, name_in, name_out, tree_in>>

NextWalk == WalkTree

SpecWalk == InitWalk /\ [][NextWalk]_vars

(* ---------------------------- properties ------------------------------- *)
Range(s) == {s[k] : k \in 1..Len(s)}

KeysOf(d) == {d[k].path : k \in 1..Len(d)}

\* the scan has returned
Scanned == pc \in {"scanned", "reported", "exited"} \/ exception = "UnboundLocalError"

\* generate_report has returned
Reported == pc \in {"reported", "exited"}

HasFunction(path) ==
    /\ fs[path].valid
    /\ \E i \in 1..Len(fs[path].tree) : fs[path].tree[i].kind = "FunctionDef"

\* process_file is past its try block for the k-th processed file
PastParse(k) == k < Len(processed) \/ pc # "opened"

\* C1: generate_report invoked with 'docx' while Document is None returns
\* without raising and writes project_documentation.txt only, whatever
\* ProjectData it is given.
C1_DocxFallsBackToText ==
    (requested = "docx" /\ ~Document) =>
        /\ exception = ""
        /\ Len(written) = 1 /\ written[1].name = TxtFile

\* C2: a file that fails to parse yields no records and one diagnostic naming
\* it, process_file does not raise on it, it is absent from ProjectData, and
\* the scan goes on: a scan is ended early by nothing but a failing open(),
\* and a scan that returns has processed every eligible file and holds every
\* one that has functions.
C2_ParseFailureSkipped ==
    /\ \A k \in 1..Len(processed) :
         LET p == processed[k]
         IN (fs[p].openable /\ ~fs[p].valid /\ PastParse(k)) =>
              /\ Cardinality({j \in 1..Len(stdout) :
                     stdout[j].tag = "Error parsing" /\ stdout[j].path = p}) = 1
              /\ p \notin KeysOf(project_data)
              /\ (k = Len(processed) /\ pc \in {"parsed", "closed"}) => result = <<>>
              /\ (k = Len(processed)) => exception # "OSError"
    /\ exception = "OSError" => ~fs[processed[Len(processed)]].openable
    /\ Scanned =>
         \A p \in DOMAIN fs :
            Eligible(Basename(p)) =>
               /\ p \in Range(processed)
               /\ HasFunction(p) => p \in KeysOf(project_data)

C2_Witness ==
    /\ pc = "scanned"
    /\ \E j, k \in 1..Len(processed) :
         /\ j < k
         /\ ~fs[processed[j]].valid
         /\ processed[k] \in KeysOf(project_data)

\* C3: the ProjectData scan_project returns has one entry per eligible file
\* that contains a function, and at no point of the scan does it hold an
\* entry with no module or a module with no function.
C3_NoEmptyEntries ==
    /\ \A k \in 1..Len(project_data) :
         /\ project_data[k].modules # <<>>
         /\ \A m \in 1..Len(project_data[k].modules) :
              project_data[k].modules[m].functions # <<>>
    /\ Scanned =>
         /\ Len(project_data) =
               Cardinality({p \in DOMAIN fs : Eligible(Basename(p)) /\ HasFunction(p)})
         /\ Cardinality(KeysOf(project_data)) = Len(project_data)

C3_Witness ==
    /\ pc = "scanned"
    /\ Len(project_data) = 2
    /\ Len(processed) = 3

\* C4: a file that cannot be opened is skipped and the scan continues; it
\* never ends the scan.
C4_UnreadableFileSkipped == exception # "OSError"

\* C5: an invocation of generate_report that returns has written exactly one
\* file and printed exactly one confirmation line, which names that file.
IsConfirmation(l) == l.tag \in {"Text document generated", "Word document generated"}

C5_OneFileOneConfirmation ==
    Reported =>
        /\ Len(written) = 1
        /\ written[1].name \in {TxtFile, DocxFile}
        /\ Cardinality({j \in 1..Len(stdout) : IsConfirmation(stdout[j])}) = 1
        /\ \A j \in 1..Len(stdout) :
              IsConfirmation(stdout[j]) =>
                 /\ stdout[j].file = written[1].name
                 /\ (stdout[j].tag = "Word document generated") = (written[1].name = DocxFile)

C5_Witness ==
    /\ pc = "reported" /\ requested = "docx" /\ ~Document
    /\ written[1].name = TxtFile

\* C6: the module name of a base name ending in '.py' is the base name
\* without that trailing suffix, everything before it kept.
C6_OnlyTrailingSuffixRemoved ==
    pc = "named" => name_out = SubSeq(name_in, 1, Len(name_in) - Len(PySuffix))

\* C7: process_file produces exactly one record per FunctionDef node of the
\* tree, at any nesting, and no record for any other node.
RecordsOf(modules) == IF modules = <<>> THEN <<>> ELSE modules[1].functions

C7_OneRecordPerFunctionDef ==
    pc = "walked" =>
        LET recs == RecordsOf(walk_out)
        IN /\ Len(walk_out) <= 1
           /\ \A i \in 1..Len(tree_in) :
                 Cardinality({k \in 1..Len(recs) : recs[k].name = tree_in[i].name})
                    = IF tree_in[i].kind = "FunctionDef" THEN 1 ELSE 0
           /\ \A k \in 1..Len(recs) :
                 \E i \in 1..Len(tree_in) : recs[k].name = tree_in[i].name

C7_Witness ==
    /\ pc = "walked"
    /\ Len(tree_in) = 4
    /\ tree_in[2].kind = "ClassDef"
    /\ tree_in[3].kind = "FunctionDef" /\ tree_in[3].parent = 2
    /\ tree_in[4].kind = "FunctionDef" /\ tree_in[4].parent = 3
    /\ Len(RecordsOf(walk_out)) = 2

\* C8: scan_project processes, once each, exactly the files whose name ends
\* with '.py' other than the running script itself.
C8_AllButOwnScript ==
    Scanned =>
        /\ Range(processed) =
              {p \in DOMAIN fs : EndsWith(Basename(p), PySuffix) /\ p # SelfPath}
        /\ Cardinality(Range(processed)) = Len(processed)

\* C9: the text report nests File, Module, Function: the File headers are
\* the files with functions in discovery order, under each the Module
\* headers of that file in order, under each the Function blocks of that
\* module in order, each block of five lines.
FilesBefore(L, k) == Cardinality({j \in 1..k : L[j].tag = "File"})

LastAt(L, k, tag) ==
    LET S == {j \in 1..k : L[j].tag = tag}
    IN IF S = {} THEN 0 ELSE CHOOSE j \in S : \A i \in S : i <= j

ModulesBefore(L, k) ==
    Cardinality({j \in (LastAt(L, k, "File") + 1)..k : L[j].tag = "Module"})

FunctionsBefore(L, k) ==
    Cardinality({j \in (LastAt(L, k, "Module") + 1)..k : L[j].tag = "Function"})

Nested(L, data) ==
    /\ \A k \in 1..Len(L) :
         LET f == FilesBefore(L, k)
             m == ModulesBefore(L, k)
             n == FunctionsBefore(L, k)
         IN /\ f \in 1..Len(data)
            /\ L[k].tag = "File" => L[k].val = data[f].path
            /\ L[k].tag # "File" =>
                  /\ LastAt(L, k, "Module") > LastAt(L, k, "File")
                  /\ m \in 1..Len(data[f].modules)
            /\ L[k].tag = "Module" => L[k].val = data[f].modules[m].module
            /\ L[k].tag \notin {"File", "Module"} =>
                  /\ LastAt(L, k, "Function") > LastAt(L, k, "Module")
                  /\ n \in 1..Len(data[f].modules[m].functions)
            /\ L[k].tag = "Function" =>
                  /\ L[k].val = data[f].modules[m].functions[n].name
                  /\ k + 4 <= Len(L)
                  /\ L[k + 1].tag = "Inputs" /\ L[k + 2].tag = "Returns"
                  /\ L[k + 3].tag = "Description" /\ L[k + 4].tag = "Rule"
    /\ Cardinality({k \in 1..Len(L) : L[k].tag = "File"}) = Len(data)
    /\ \A f \in 1..Len(data) :
         LET S == {k \in 1..Len(L) : FilesBefore(L, k) = f}
         IN /\ Cardinality({k \in S : L[k].tag = "Module"}) = Len(data[f].modules)
            /\ \A m \in 1..Len(data[f].modules) :
                 Cardinality({k \in S : L[k].tag = "Function" /\ ModulesBefore(L, k) = m})
                    = Len(data[f].modules[m].functions)
    /\ Len(L) = Len(data)
                + Cardinality({k \in 1..Len(L) : L[k].tag = "Module"})
                + 5 * Cardinality({k \in 1..Len(L) : L[k].tag = "Function"})

C9_TextReportNested ==
    (Reported /\ written[1].name = TxtFile) =>
        /\ Nested(written[1].content, project_data)
        /\ [k \in 1..Len(project_data) |-> project_data[k].path]
              = SelectSeq(processed, LAMBDA p : HasFunction(p))

C9_Witness ==
    /\ Reported /\ written[1].name = TxtFile
    /\ Len(project_data) = 3

\* C10: at most one source file is open at any time, and the handle
\* process_file opened is closed before it returns and so before the next
\* file is opened, whether or not the file parsed.
C10_OneHandleReleased ==
    /\ Cardinality(handles) <= 1
    /\ handles # {} => (handles = {file_path} /\ pc \in {"opened", "parsed"})
    /\ pc \in {"opened", "parsed"} => handles = {file_path}

C10_Witness ==
    /\ pc = "closed" /\ ~fs[file_path].valid /\ handles = {}
    /\ Len(processed) = 2
====
